---- MODULE Spec2Model ----
(***************************************************************************)
(* DrawSketchController (src/Mod/Sketcher/Gui/DrawSketchController.h):     *)
(* the generic controller between a controllable sketch handler and its    *)
(* on-view parameters.                                                     *)
(*                                                                         *)
(* The controller is single threaded: every entry point runs to completion *)
(* on the GUI thread, calls into the handler and is called back by it      *)
(* synchronously.  Each action below is therefore one whole entry point,   *)
(* computed by operators over a record `r' holding the controller's and    *)
(* the handler's fields.  The field `log' is the call history of the entry *)
(* point being executed: one entry per call, with the fields as they were  *)
(* when the entry was written.                                             *)
(*                                                                         *)
(* Indices are 0-based as in the C++; slot i is onViewParameters[i + 1].   *)
(***************************************************************************)
EXTENDS Integers, Sequences, FiniteSets

\* ------------------------------------------------------------------ bounds

\* The pointer moves along the line y = 0, over x in 0..MaxCoord.
MaxCoord == 1

Coord == 0 .. MaxCoord

\* Base::Vector2d: the positions the pointer reports.
Positions == {<<x, 0>> : x \in Coord}

\* The value a user types into a spinbox (startEdit shows 0).
Values == {1}

\* ------------------------------------------------- template instantiation

\* OnViewParameters<2, 3, 0>: the number of on-view parameters of each
\* construction method (ControlAmount::constructionMethodParameters).
ModeTable == <<2, 3, 0>>

\* ConstructionMethodT: the construction methods, as static_cast<int>.
ConstructionMethods == 0 .. (Len(ModeTable) - 1)

\* ControlAmount::size
size(constructionmethod) == ModeTable[constructionmethod + 1]

\* ControlAmount::defaultMethodSize
defaultMethodSize == size(0)

\* SelectModeT: the states of the handler's state machine, in order.
SelectModes == <<"SeekFirst", "SeekSecond", "End">>
SelectMode == {SelectModes[k] : k \in 1 .. Len(SelectModes)}
End == "End"

\* The largest number of on-view parameters of any construction method.
MaxParameters == CHOOSE n \in 0 .. 10 :
                    /\ \A m \in ConstructionMethods : size(m) <= n
                    /\ \E m \in ConstructionMethods : size(m) = n

\* getState specialisations: which state each parameter index belongs to.
\* A parameter is edited in a state that still seeks input, never in End,
\* and the parameters of a state precede those of the states after it.  The
\* unspecialised getState is the map to the first state.
StateMaps ==
    {f \in [0 .. (MaxParameters - 1) -> SelectMode \ {End}] :
        \A i \in 0 .. (MaxParameters - 2) :
            f[i] = "SeekSecond" => f[i + 1] = "SeekSecond"}

\* The choices of the doChangeDrawSketchHandlerMode hook: the default, or a
\* specialisation that moves the handler to a state.
ModeHooks == {"default"} \cup SelectMode

\* The choices of the doEnforceControlParameters hook: the default, or a
\* specialisation that overwrites the position with a value set in a label.
EnforceHooks == {"default", "setValue"}

\* ------------------------------------------------------------------- state

VARIABLES
    state,                        \* handler->state()
    constructionMethod,           \* handler->constructionMethod()
    continuousMode,               \* handler->continuousMode
    stateMap,                     \* the getState specialisation in use
    enforceHook,                  \* the doEnforceControlParameters in use
    init,                         \* controls initialised
    firstMoveInit,                \* first mouse movement performed
    prevCursorPosition,           \* last raw position
    lastControlEnforcedPosition,  \* last enforced position
    onViewIndexWithFocus,         \* index of the parameter with focus
    nOnViewParameter,             \* number of parameters of the method
    onViewParameters,             \* the EditableDatumLabels
    movedSinceReset,              \* history: mouseMoved ran since resetControls
    log                           \* history: calls of the last entry point

vars == <<state, constructionMethod, continuousMode, stateMap, enforceHook, init,
          firstMoveInit, prevCursorPosition, lastControlEnforcedPosition,
          onViewIndexWithFocus, nOnViewParameter, onViewParameters,
          movedSinceReset, log>>

\* The current fields as a record, with an empty call history.
Cur ==
    [state |-> state,
     constructionMethod |-> constructionMethod,
     continuousMode |-> continuousMode,
     stateMap |-> stateMap,
     enforceHook |-> enforceHook,
     init |-> init,
     firstMoveInit |-> firstMoveInit,
     prevCursorPosition |-> prevCursorPosition,
     lastControlEnforcedPosition |-> lastControlEnforcedPosition,
     onViewIndexWithFocus |-> onViewIndexWithFocus,
     nOnViewParameter |-> nOnViewParameter,
     onViewParameters |-> onViewParameters,
     movedSinceReset |-> movedSinceReset,
     log |-> <<>>]

\* The entry point returned with fields r.
Commit(r) ==
    /\ state' = r.state
    /\ constructionMethod' = r.constructionMethod
    /\ continuousMode' = r.continuousMode
    /\ stateMap' = r.stateMap
    /\ enforceHook' = r.enforceHook
    /\ init' = r.init
    /\ firstMoveInit' = r.firstMoveInit
    /\ prevCursorPosition' = r.prevCursorPosition
    /\ lastControlEnforcedPosition' = r.lastControlEnforcedPosition
    /\ onViewIndexWithFocus' = r.onViewIndexWithFocus
    /\ nOnViewParameter' = r.nOnViewParameter
    /\ onViewParameters' = r.onViewParameters
    /\ movedSinceReset' = r.movedSinceReset
    /\ log' = r.log

\* What an entry of the call history records of the fields.
Fields(r) ==
    [state |-> r.state,
     firstMoveInit |-> r.firstMoveInit,
     prevCursorPosition |-> r.prevCursorPosition,
     lastControlEnforcedPosition |-> r.lastControlEnforcedPosition,
     onViewIndexWithFocus |-> r.onViewIndexWithFocus,
     n |-> Len(r.onViewParameters),
     movedSinceReset |-> r.movedSinceReset]

\* One entry of the call history: the call ev with arguments arg, and the
\* fields at that moment.
Log(r, ev, arg) ==
    [r EXCEPT !.log = Append(@, [ev |-> ev, arg |-> arg, st |-> Fields(r),
                                 labels |-> <<>>])]

\* An entry that also records the labels.
LogLabels(r, ev, arg) ==
    [r EXCEPT !.log = Append(@, [ev |-> ev, arg |-> arg, st |-> Fields(r),
                                 labels |-> r.onViewParameters])]

\* An index converted to unsigned int (or size_t) and compared with a size:
\* a negative int converts to a value above any size.
InRange(index, n) == index >= 0 /\ index < n

\* --------------------------------------------------- Gui::EditableDatumLabel

\* A label as constructed: not set, not in the scene, no spinbox.
NewLabel == [isSet |-> FALSE, active |-> FALSE, edit |-> FALSE, value |-> 0]

activate(label) == [label EXCEPT !.active = TRUE]

stopEdit(label) == [label EXCEPT !.edit = FALSE]

deactivate(label) == [stopEdit(label) EXCEPT !.active = FALSE]

startEdit(label, val) == [label EXCEPT !.edit = TRUE, !.value = val]

\* The spinbox commits a value: the label is set and emits valueChanged.
commitValue(label, val) == [label EXCEPT !.isSet = TRUE, !.value = val]

\* ------------------------------------------------- reset of the parameters

\* initNOnViewParameters without onViewParameters.clear(): the labels already
\* there are kept.
initNOnViewParameters_noClear(r, n) ==
    [r EXCEPT !.onViewParameters =
        [k \in 1 .. n |-> IF k <= Len(r.onViewParameters)
                          THEN r.onViewParameters[k]
                          ELSE NewLabel]]

\* initNOnViewParameters without onViewParameters.clear(), as the vector
\* does it: n new labels are appended to those already there.
initNOnViewParameters_append(r, n) ==
    [r EXCEPT !.onViewParameters = @ \o [k \in 1 .. n |-> NewLabel]]

\* initNOnViewParameters: the labels are destroyed and n new ones created,
\* each connected to onViewValueChanged with its own index.
initNOnViewParameters(r, n) ==
    [r EXCEPT !.onViewParameters = [k \in 1 .. n |-> NewLabel]]

\* configureOnViewParameters: nothing unless specialised.
configureOnViewParameters(r) == r

\* resetOnViewParameters
resetOnViewParameters(r) ==
    LET a == initNOnViewParameters(r, r.nOnViewParameter)
        b == [a EXCEPT !.onViewIndexWithFocus = 0]
    IN  configureOnViewParameters(b)

\* doResetControls
doResetControls(r) == resetOnViewParameters(r)

\* resetControls without the assignment of line 215.
resetControls_keepFlag(r) ==
    LET a == doResetControls(Log(r, "resetControls", <<>>))
    IN  LogLabels(a, "resetControls.ret", <<>>)

\* resetControls also forgetting the recorded positions.
resetControls_clearsPositions(r) ==
    LET a == doResetControls(Log(r, "resetControls", <<>>))
        b == [a EXCEPT !.firstMoveInit = FALSE, !.movedSinceReset = FALSE,
                       !.prevCursorPosition = <<0, 0>>,
                       !.lastControlEnforcedPosition = <<0, 0>>]
    IN  LogLabels(b, "resetControls.ret", <<>>)

\* resetControls
resetControls(r) ==
    LET a == doResetControls(Log(r, "resetControls", <<>>))
        b == [a EXCEPT !.firstMoveInit = FALSE, !.movedSinceReset = FALSE]
    IN  LogLabels(b, "resetControls.ret", <<>>)

\* ------------------------------------------------------ focus and activation

\* getState, as specialised by stateMap (unspecialised: the first state for
\* every index).
getState(r, parameterindex) == r.stateMap[parameterindex]

\* isOnViewParameterOfCurrentMode
isOnViewParameterOfCurrentMode(r, onviewparameterindex) ==
    /\ InRange(onviewparameterindex, Len(r.onViewParameters))
    /\ getState(r, onviewparameterindex) = r.state

\* setFocusToOnViewParameter without the comparison with the size.
setFocusToOnViewParameter_unchecked(r, onviewparameterindex) ==
    LET a == Log(r, "setFocusToSpinbox", <<onviewparameterindex>>)
    IN  [a EXCEPT !.onViewIndexWithFocus = onviewparameterindex]

\* setFocusToOnViewParameter
setFocusToOnViewParameter(r, onviewparameterindex) ==
    IF InRange(onviewparameterindex, Len(r.onViewParameters))
    THEN LET a == Log(r, "setFocusToSpinbox", <<onviewparameterindex>>)
         IN  [a EXCEPT !.onViewIndexWithFocus = onviewparameterindex]
    ELSE r

\* The loop of setModeOnViewParameters deactivating every label that is not of
\* the handler's state, set or not.
RECURSIVE setModeLoop_alwaysDeactivate(_, _, _)
setModeLoop_alwaysDeactivate(r, i, firstOfMode) ==
    IF ~ (i < Len(r.onViewParameters))
    THEN r
    ELSE IF ~ isOnViewParameterOfCurrentMode(r, i)
    THEN LET label == deactivate(stopEdit(r.onViewParameters[i + 1]))
         IN  setModeLoop_alwaysDeactivate(
                 [r EXCEPT !.onViewParameters[i + 1] = label], i + 1, firstOfMode)
    ELSE LET a == IF firstOfMode
                  THEN [r EXCEPT !.onViewIndexWithFocus = i]
                  ELSE r
             label == startEdit(activate(a.onViewParameters[i + 1]), 0)
         IN  setModeLoop_alwaysDeactivate(
                 [a EXCEPT !.onViewParameters[i + 1] = label], i + 1, FALSE)

\* The body of the loop of setModeOnViewParameters for index i.
RECURSIVE setModeLoop(_, _, _)
setModeLoop(r, i, firstOfMode) ==
    IF ~ (i < Len(r.onViewParameters))
    THEN r
    ELSE IF ~ isOnViewParameterOfCurrentMode(r, i)
    THEN LET stopped == stopEdit(r.onViewParameters[i + 1])
             label == IF ~ stopped.isSet \/ r.state = End
                      THEN deactivate(stopped)
                      ELSE stopped
         IN  setModeLoop([r EXCEPT !.onViewParameters[i + 1] = label],
                         i + 1, firstOfMode)
    ELSE LET a == IF firstOfMode
                  THEN [r EXCEPT !.onViewIndexWithFocus = i]
                  ELSE r
             label == startEdit(activate(a.onViewParameters[i + 1]), 0)
         IN  setModeLoop([a EXCEPT !.onViewParameters[i + 1] = label],
                         i + 1, FALSE)

\* setModeOnViewParameters without onViewIndexWithFocus = -1 before the loop.
setModeOnViewParameters_keepFocus(r) ==
    LogLabels(setModeLoop(r, 0, TRUE), "setModeOnViewParameters.ret", <<>>)

\* setModeOnViewParameters
setModeOnViewParameters(r) ==
    LET a == [r EXCEPT !.onViewIndexWithFocus = -1]
        b == setModeLoop(a, 0, TRUE)
    IN  LogLabels(b, "setModeOnViewParameters.ret", <<>>)

\* The while loop of passFocusToNextOnViewParameter from index.
RECURSIVE passFocusLoop(_, _)
passFocusLoop(r, index) ==
    IF ~ (index < Len(r.onViewParameters))
    THEN r
    ELSE IF isOnViewParameterOfCurrentMode(r, index)
    THEN setFocusToOnViewParameter(r, index)
    ELSE passFocusLoop(r, index + 1)

\* passFocusToNextOnViewParameter
passFocusToNextOnViewParameter(r) ==
    LET a == Log(r, "passFocusToNextOnViewParameter", <<>>)
        next == a.onViewIndexWithFocus + 1
        index == IF next >= Len(a.onViewParameters) THEN 0 ELSE next
    IN  passFocusLoop(a, index)

\* tabShortcut
tabShortcut(r) == passFocusToNextOnViewParameter(r)

\* ------------------------------------------------------- pointer movement

\* onMouseMoved
onMouseMoved(r, originalSketchPosition) ==
    IF ~ r.firstMoveInit
    THEN setModeOnViewParameters(Log(r, "firstMovement", originalSketchPosition))
    ELSE r

\* mouseMoved without firstMoveInit = true.
mouseMoved_noFlag(r, originalSketchPosition) ==
    LET a == onMouseMoved(LogLabels(r, "mouseMoved", originalSketchPosition),
                          originalSketchPosition)
        c == [a EXCEPT !.movedSinceReset = TRUE]
    IN  LogLabels(c, "mouseMoved.ret", originalSketchPosition)

\* mouseMoved
mouseMoved(r, originalSketchPosition) ==
    LET a == onMouseMoved(LogLabels(r, "mouseMoved", originalSketchPosition),
                          originalSketchPosition)
        b == IF ~ a.firstMoveInit THEN [a EXCEPT !.firstMoveInit = TRUE] ELSE a
        c == [b EXCEPT !.movedSinceReset = TRUE]
    IN  LogLabels(c, "mouseMoved.ret", originalSketchPosition)

\* doEnforceControlParameters overwriting x with the value set in the first
\* label.
doEnforceControlParameters_locked(r, onSketchPos) ==
    IF Len(r.onViewParameters) > 0 /\ r.onViewParameters[1].isSet
    THEN <<r.onViewParameters[1].value, onSketchPos[2]>>
    ELSE onSketchPos

\* doEnforceControlParameters: the position it leaves in onSketchPos.
doEnforceControlParameters(r, onSketchPos) == onSketchPos

\* A specialisation of doEnforceControlParameters: x is overwritten with the
\* value set in the first label.
doEnforceControlParametersOverride(r, onSketchPos) ==
    IF Len(r.onViewParameters) > 0 /\ r.onViewParameters[1].isSet
    THEN <<r.onViewParameters[1].value, onSketchPos[2]>>
    ELSE onSketchPos

\* The virtual call of doEnforceControlParameters.
callDoEnforceControlParameters(r, onSketchPos) ==
    IF r.enforceHook = "default"
    THEN doEnforceControlParameters(r, onSketchPos)
    ELSE doEnforceControlParametersOverride(r, onSketchPos)

\* afterEnforceControlParameters giving the focus to the first label.
afterEnforceControlParameters_first(r) == setFocusToOnViewParameter(r, 0)

\* afterEnforceControlParameters
afterEnforceControlParameters(r) ==
    IF r.onViewIndexWithFocus >= 0
    THEN setFocusToOnViewParameter(r, r.onViewIndexWithFocus)
    ELSE r

\* enforceControlParameters recording the raw position after the hook.
enforceControlParameters_recordAfterHook(r, onSketchPos) ==
    LET a == Log(r, "enforceControlParameters", onSketchPos)
        enforced == callDoEnforceControlParameters(a, onSketchPos)
        b == [a EXCEPT !.prevCursorPosition = enforced]
        c == [b EXCEPT !.lastControlEnforcedPosition = enforced]
        d == afterEnforceControlParameters(c)
    IN  LogLabels(d, "enforceControlParameters.ret", enforced)

\* enforceControlParameters: the entry "enforceControlParameters.ret" holds
\* the position left in the caller's onSketchPos.
enforceControlParameters(r, onSketchPos) ==
    LET a == Log(r, "enforceControlParameters", onSketchPos)
        b == [a EXCEPT !.prevCursorPosition = onSketchPos]
        enforced == callDoEnforceControlParameters(b, onSketchPos)
        c == [b EXCEPT !.lastControlEnforcedPosition = enforced]
        d == afterEnforceControlParameters(c)
    IN  LogLabels(d, "enforceControlParameters.ret", enforced)

\* ---------------------------------------------------------------- handler

\* handler->mouseMove: the handler reports the movement to the controller,
\* then has the controller enforce its parameters on the position.
mouseMove(r, onSketchPos) ==
    LET a == Log(r, "mouseMove", onSketchPos)
        b == mouseMoved(a, onSketchPos)
    IN  enforceControlParameters(b, onSketchPos)

\* handler->isLastState
isLastState(r) == r.state = End

\* handler->getFirstState
getFirstState == SelectModes[1]

\* handler->updateCursor
updateCursor(r) == Log(r, "updateCursor", <<>>)

\* handler->preselectAtPoint
preselectAtPoint(r, onSketchPos) == Log(r, "preselectAtPoint", onSketchPos)

\* handler->reset: the state machine restarts and the handler resets the
\* controls.
reset(r) ==
    LET a == Log(r, "reset", <<>>)
        b == [a EXCEPT !.state = getFirstState]
        c == IF b.state # a.state THEN Log(b, "stateChanged", <<>>) ELSE b
    IN  resetControls(c)

\* onHandlerModeChanged
onHandlerModeChanged(r) ==
    setModeOnViewParameters(Log(r, "onHandlerModeChanged", <<>>))

\* afterHandlerModeChanged without "|| handler->continuousMode".
afterHandlerModeChanged_notEnd(r) ==
    LET a == Log(r, "afterHandlerModeChanged", <<>>)
    IN  IF a.state # End
        THEN mouseMove(a, a.prevCursorPosition)
        ELSE a

\* afterHandlerModeChanged without the condition.
afterHandlerModeChanged_always(r) ==
    LET a == Log(r, "afterHandlerModeChanged", <<>>)
    IN  mouseMove(a, a.prevCursorPosition)

\* afterHandlerModeChanged
afterHandlerModeChanged(r) ==
    LET a == Log(r, "afterHandlerModeChanged", <<>>)
    IN  IF a.state # End \/ a.continuousMode
        THEN mouseMove(a, a.prevCursorPosition)
        ELSE a

\* handler->setState: the handler changes state and notifies the controller
\* of the change, then after it.
setState(r, mode) ==
    LET a == [r EXCEPT !.state = mode]
        b == IF mode # r.state THEN Log(a, "stateChanged", <<>>) ELSE a
    IN  afterHandlerModeChanged(onHandlerModeChanged(b))

\* -------------------------------------------- construction method change

\* doConstructionMethodChanged
doConstructionMethodChanged(r) == Log(r, "doConstructionMethodChanged", <<>>)

\* onConstructionMethodChanged with the replay before the handler's reset.
onConstructionMethodChanged_replayFirst(r) ==
    LET entry == Log(r, "onConstructionMethodChanged", <<>>)
        a == [entry EXCEPT !.nOnViewParameter = size(r.constructionMethod)]
        b == doConstructionMethodChanged(Log(a, "nOnViewParameter", <<>>))
        c == updateCursor(b)
        d == mouseMove(c, c.prevCursorPosition)
    IN  reset(d)

\* onConstructionMethodChanged
onConstructionMethodChanged(r) ==
    LET entry == Log(r, "onConstructionMethodChanged", <<>>)
        a == [entry EXCEPT !.nOnViewParameter = size(r.constructionMethod)]
        b == doConstructionMethodChanged(Log(a, "nOnViewParameter", <<>>))
        c == updateCursor(b)
        d == reset(c)
    IN  mouseMove(d, d.prevCursorPosition)

\* ------------------------------------------------- value changed in a label

\* adaptDrawingToOnViewParameterChange
adaptDrawingToOnViewParameterChange(r, onviewparameterindex, value) == r

\* doChangeDrawSketchHandlerMode
doChangeDrawSketchHandlerMode(r) == r

\* doChangeDrawSketchHandlerMode as a tool overrides it: the values entered
\* complete a state and the handler moves to state mode.
doChangeDrawSketchHandlerModeOverride(r, mode) == setState(r, mode)

\* The virtual call of doChangeDrawSketchHandlerMode under hook.
callDoChangeDrawSketchHandlerMode(r, hook) ==
    LET a == Log(r, "doChangeDrawSketchHandlerMode", <<>>)
    IN  IF hook = "default"
        THEN doChangeDrawSketchHandlerMode(a)
        ELSE doChangeDrawSketchHandlerModeOverride(a, hook)

\* finishControlsChanged without the comparison with currentstate.
finishControlsChanged_anyState(r, hook) ==
    LET a == mouseMove(r, r.prevCursorPosition)
        b == preselectAtPoint(a, a.lastControlEnforcedPosition)
        c == callDoChangeDrawSketchHandlerMode(b, hook)
    IN  IF ~ isLastState(c) /\ c.firstMoveInit
        THEN mouseMove(c, c.prevCursorPosition)
        ELSE c

\* finishControlsChanged
finishControlsChanged(r, hook) ==
    LET a == mouseMove(r, r.prevCursorPosition)
        currentstate == a.state
        b == preselectAtPoint(a, a.lastControlEnforcedPosition)
        c == callDoChangeDrawSketchHandlerMode(b, hook)
    IN  IF ~ isLastState(c) /\ c.state # currentstate /\ c.firstMoveInit
        THEN mouseMove(c, c.prevCursorPosition)
        ELSE c

\* The focus step of onViewValueChanged on the index itself.
onViewValueChangedFocus_same(r, onviewparameterindex) ==
    IF isOnViewParameterOfCurrentMode(r, onviewparameterindex)
    THEN setFocusToOnViewParameter(r, onviewparameterindex)
    ELSE r

\* The focus step of onViewValueChanged.
onViewValueChangedFocus(r, onviewparameterindex) ==
    IF isOnViewParameterOfCurrentMode(r, onviewparameterindex + 1)
    THEN setFocusToOnViewParameter(r, onviewparameterindex + 1)
    ELSE r

\* onViewValueChanged
onViewValueChanged(r, onviewparameterindex, value, hook) ==
    LET a == Log(r, "onViewValueChanged", <<onviewparameterindex>>)
        b == onViewValueChangedFocus(a, onviewparameterindex)
        c == Log(b, "onViewValueChanged.focus", <<onviewparameterindex>>)
        d == adaptDrawingToOnViewParameterChange(c, onviewparameterindex, value)
    IN  finishControlsChanged(d, hook)

\* The valueChanged connection made in initNOnViewParameters for label i.
valueChanged(r, i, value, hook) == onViewValueChanged(r, i, value, hook)

\* ---------------------------------------------------------- initialisation

\* doInitControls
doInitControls(r) == r

\* initControls
initControls(r) ==
    LET a == resetControls(doInitControls(Log(r, "initControls", <<>>)))
    IN  [a EXCEPT !.init = TRUE]

\* ------------------------------------------------------------ specification

\* The controller as constructed, bound to a handler in its first state; the
\* tool may be created with any construction method.
Constructed ==
    /\ state = getFirstState
    /\ constructionMethod \in ConstructionMethods
    /\ continuousMode \in BOOLEAN
    /\ stateMap \in StateMaps
    /\ init = FALSE
    /\ firstMoveInit = FALSE
    /\ prevCursorPosition = <<0, 0>>
    /\ lastControlEnforcedPosition = <<0, 0>>
    /\ onViewIndexWithFocus = 0
    /\ nOnViewParameter = defaultMethodSize
    /\ onViewParameters = <<>>
    /\ movedSinceReset = FALSE
    /\ log = <<>>

\* The controller of this file: doEnforceControlParameters is not specialised.
Init ==
    /\ Constructed
    /\ enforceHook = "default"

\* A controller whose doEnforceControlParameters may be specialised.
InitEnforce ==
    /\ Constructed
    /\ enforceHook \in EnforceHooks

\* The handler is activated and initialises the controls, once.
InitControls ==
    /\ ~ init
    /\ Commit(initControls(Cur))

\* The pointer moves to p.
MouseMove ==
    /\ init
    /\ \E p \in Positions : Commit(mouseMove(Cur, p))

\* The user selects construction method m.
ConstructionMethodChanged ==
    /\ init
    /\ \E m \in ConstructionMethods :
          Commit(onConstructionMethodChanged([Cur EXCEPT !.constructionMethod = m]))

\* A click moves the handler to state mode.
HandlerModeChanged ==
    /\ init
    /\ \E mode \in SelectMode : Commit(setState(Cur, mode))

\* The handler is reset.
HandlerReset ==
    /\ init
    /\ Commit(reset(Cur))

\* The user commits value in the spinbox of label i.
ValueChanged ==
    /\ init
    /\ \E i \in 0 .. (Len(onViewParameters) - 1), value \in Values, hook \in ModeHooks :
          /\ onViewParameters[i + 1].edit
          /\ Commit(valueChanged(
                [Cur EXCEPT !.onViewParameters[i + 1] = commitValue(@, value)],
                i, value, hook))

\* The controls are reset on their own (the public resetControls).
ResetControls ==
    /\ init
    /\ Commit(resetControls(Cur))

\* The user presses tab.
TabShortcut ==
    /\ init
    /\ Commit(tabShortcut(Cur))

Next ==
    \/ InitControls
    \/ MouseMove
    \/ ConstructionMethodChanged
    \/ HandlerModeChanged
    \/ HandlerReset
    \/ ResetControls
    \/ ValueChanged
    \/ TabShortcut

Spec == Init /\ [][Next]_vars

SpecEnforce == InitEnforce /\ [][Next]_vars

\* ------------------------------------------------------- reading the log

\* The entries of the call history that are calls of ev.
Events(ev) == {k \in DOMAIN log : log[k].ev = ev}

\* The entry point the call history is of.
EntryPoint == IF log = <<>> THEN "none" ELSE log[1].ev

\* The names of the calls among evs, in order.
Calls(evs) ==
    LET sel == SelectSeq(log, LAMBDA e : e.ev \in evs)
    IN  [k \in 1 .. Len(sel) |-> sel[k].ev]

\* The first entry after k that is a call of ev (0: none).
NextEvent(k, ev) ==
    IF \E j \in Events(ev) : j > k
    THEN CHOOSE j \in Events(ev) : j > k /\ \A h \in Events(ev) : h > k => j <= h
    ELSE 0

\* The last entry before k that is a call of ev (0: none).
PrevEvent(k, ev) ==
    IF \E j \in Events(ev) : j < k
    THEN CHOOSE j \in Events(ev) : j < k /\ \A h \in Events(ev) : h < k => h <= j
    ELSE 0

\* The parameter indices among 0..n-1 that belong to state mode.
OfMode(n, mode) == {i \in 0 .. (n - 1) : stateMap[i] = mode}

Lowest(S) == CHOOSE i \in S : \A j \in S : i <= j

\* ------------------------------------------------------------------ claims

\* C1 (as stated): whenever resetControls returns, the number of on-view
\* parameters is the Mode Table's size of the handler's construction method.
C1_SlotCountAfterReset ==
    \A k \in Events("resetControls.ret") :
        Len(log[k].labels) = size(constructionMethod)

\* C2: after onConstructionMethodChanged the parameters are rebuilt: when the
\* handler's reset returned from resetControls there were size(method) labels,
\* each as constructed (not set, not active, not in edit); on return there
\* are size(method) labels, none set, and a label is active and in edit
\* exactly if it belongs to the handler's state, the first state.
C2_Rebuilt ==
    EntryPoint = "onConstructionMethodChanged" =>
        /\ Events("resetControls.ret") # {}
        /\ \A k \in Events("resetControls.ret") :
              log[k].labels = [i \in 1 .. size(constructionMethod) |-> NewLabel]
        /\ Len(onViewParameters) = size(constructionMethod)
        /\ state = getFirstState
        /\ \A i \in 0 .. (Len(onViewParameters) - 1) :
              LET label == onViewParameters[i + 1]
                  ofMode == stateMap[i] = state
              IN  /\ ~ label.isSet
                  /\ label.active = ofMode
                  /\ label.edit = ofMode

\* C2 witness: the switch from the method with two parameters to the method
\* with three: three labels, the first of the first state, active, in edit.
C2_Witness ==
    /\ EntryPoint = "onConstructionMethodChanged"
    /\ log[1].st.n = 2
    /\ constructionMethod = 1
    /\ Len(onViewParameters) = 3
    /\ stateMap[0] = getFirstState
    /\ onViewParameters[1].edit

\* C3 (as stated): one onViewValueChanged runs handler->mouseMove at most
\* twice, the handler's notifications of a state change included.
C3_AtMostTwoReplays ==
    EntryPoint = "onViewValueChanged" =>
        Cardinality(Events("mouseMove")) <= 2

\* Entry k is a change of the handler's state that is followed, before the
\* entry point returns, by handler->mouseMove with the recorded position.
Replayed(k) ==
    \E j \in Events("mouseMove") :
        j > k /\ log[j].arg = log[j].st.prevCursorPosition

\* C4 (as stated): every change of the handler's state made by
\* onViewValueChanged or onConstructionMethodChanged is followed by a replay.
C4_EveryTransitionReplayed ==
    EntryPoint \in {"onViewValueChanged", "onConstructionMethodChanged"} =>
        \A k \in Events("stateChanged") : Replayed(k)

\* C4 (amended): every such change is followed by a replay, unless it is a
\* change to End while the handler's continuous mode is off, which no replay
\* follows.
C4_TransitionReplayedUnlessFinished ==
    EntryPoint \in {"onViewValueChanged", "onConstructionMethodChanged"} =>
        \A k \in Events("stateChanged") :
            Replayed(k) <=> (log[k].st.state # End \/ continuousMode)

\* C4 witness: a value committed in a label moved the handler to End in
\* continuous mode, and the position was replayed after it.
C4_Witness ==
    /\ EntryPoint = "onViewValueChanged"
    /\ continuousMode
    /\ \E k \in Events("stateChanged") : log[k].st.state = End /\ Replayed(k)

\* The focus step of the onViewValueChanged in the log: the index edited, the
\* fields before the step and after it.
EditedIndex == log[1].arg[1]
BeforeFocusStep == log[1].st
AfterFocusStep == log[NextEvent(1, "onViewValueChanged.focus")].st

\* Index i belonged to the handler's state when the fields were st.
WasOfCurrentMode(i, st) == InRange(i, st.n) /\ stateMap[i] = st.state

\* C5 (as stated): the focus step of onViewValueChanged gives the focus to
\* the edited parameter if it belongs to the handler's state, and leaves the
\* focus where it was if not.
C5_FocusOnEdited ==
    EntryPoint = "onViewValueChanged" =>
        IF WasOfCurrentMode(EditedIndex, BeforeFocusStep)
        THEN AfterFocusStep.onViewIndexWithFocus = EditedIndex
        ELSE AfterFocusStep.onViewIndexWithFocus =
                BeforeFocusStep.onViewIndexWithFocus

\* C5 (amended): the focus step gives the focus to the parameter after the
\* edited one if that one exists and belongs to the handler's state, and
\* leaves the focus where it was if not.
C5_FocusOnNext ==
    EntryPoint = "onViewValueChanged" =>
        IF WasOfCurrentMode(EditedIndex + 1, BeforeFocusStep)
        THEN AfterFocusStep.onViewIndexWithFocus = EditedIndex + 1
        ELSE AfterFocusStep.onViewIndexWithFocus =
                BeforeFocusStep.onViewIndexWithFocus

\* C5 witness: parameter 0 was edited while parameter 1 belonged to the
\* handler's state, and the focus went from 0 to 1.
C5_Witness ==
    /\ EntryPoint = "onViewValueChanged"
    /\ EditedIndex = 0
    /\ BeforeFocusStep.onViewIndexWithFocus = 0
    /\ WasOfCurrentMode(1, BeforeFocusStep)
    /\ AfterFocusStep.onViewIndexWithFocus = 1

\* The index that follows focus in wrap-around order among the n parameters
\* (the index itself last), at distance d.
Around(focus, d, n) == (focus + d) % n

\* The parameter a circular advance from focus reaches: the first one in
\* wrap-around order after it that belongs to the handler's state; the focus
\* as it was when none does.
CircularNext(focus, n) ==
    IF OfMode(n, state) = {}
    THEN focus
    ELSE LET d == Lowest({e \in 1 .. n : Around(focus, e, n) \in OfMode(n, state)})
         IN  Around(focus, d, n)

\* C6 (as stated): passFocusToNextOnViewParameter moves the focus to the
\* first parameter after the focused one, in wrap-around order, that belongs
\* to the handler's state, and leaves it when no parameter does.
C6_FocusAdvancesCircularly ==
    EntryPoint = "passFocusToNextOnViewParameter" =>
        onViewIndexWithFocus =
            CircularNext(log[1].st.onViewIndexWithFocus, Len(onViewParameters))

\* C7: at most one parameter has the focus, and when setModeOnViewParameters
\* returns the focus index is the lowest index that belongs to the handler's
\* state, or -1 when no parameter belongs to it.
C7_FocusOnLowestOfMode ==
    /\ Cardinality({i \in 0 .. (Len(onViewParameters) - 1) :
                        i = onViewIndexWithFocus}) <= 1
    /\ \A k \in Events("setModeOnViewParameters.ret") :
          LET ofMode == OfMode(log[k].st.n, log[k].st.state)
          IN  log[k].st.onViewIndexWithFocus =
                 IF ofMode = {} THEN -1 ELSE Lowest(ofMode)

\* C7 witness: setModeOnViewParameters returned with the focus on parameter
\* 2, parameters 0 and 1 belonging to another state.
C7_Witness ==
    \E k \in Events("setModeOnViewParameters.ret") :
        /\ log[k].st.onViewIndexWithFocus = 2
        /\ OfMode(log[k].st.n, log[k].st.state) = {2}

\* Call k of mouseMoved took the first-movement branch.
TookFirstMovement(k) == k < Len(log) /\ log[k + 1].ev = "firstMovement"

\* C8: a call of mouseMoved takes the first-movement branch exactly if no
\* mouseMoved ran since the last resetControls (or since construction); a
\* call that does not take it returns with the labels' activation and edit
\* status and the focus index as they were; resetControls returns with the
\* branch armed again.
C8_FirstMovementOnce ==
    /\ \A k \in Events("mouseMoved") :
          LET ret == log[NextEvent(k, "mouseMoved.ret")]
          IN  /\ TookFirstMovement(k) <=> ~ log[k].st.movedSinceReset
              /\ ~ TookFirstMovement(k) =>
                    /\ ret.labels = log[k].labels
                    /\ ret.st.onViewIndexWithFocus = log[k].st.onViewIndexWithFocus
    /\ \A k \in Events("resetControls.ret") : ~ log[k].st.firstMoveInit

\* C8 witness: mouseMoved ran twice in one entry point, after an earlier
\* movement since the reset, and neither call took the first-movement branch.
C8_Witness ==
    \E j, k \in Events("mouseMoved") :
        /\ j < k
        /\ log[j].st.movedSinceReset
        /\ ~ TookFirstMovement(j)
        /\ ~ TookFirstMovement(k)

\* The position passed to the call of enforceControlParameters that returns
\* at entry k.
EnforcedFrom(k) == log[PrevEvent(k, "enforceControlParameters")].arg

\* C9 (as stated): when the first label is set, enforceControlParameters
\* leaves a position whose x is the label's value.
C9_SetValueEnforced ==
    \A k \in Events("enforceControlParameters.ret") :
        (Len(log[k].labels) > 0 /\ log[k].labels[1].isSet) =>
            log[k].arg[1] = log[k].labels[1].value

\* C9 (amended): with doEnforceControlParameters as the controller defines
\* it, enforceControlParameters leaves the position it was given, set labels
\* or not, and records it as the raw and as the enforced position.
C9_RawPositionKept ==
    \A k \in Events("enforceControlParameters.ret") :
        /\ log[k].arg = EnforcedFrom(k)
        /\ log[k].st.prevCursorPosition = EnforcedFrom(k)
        /\ log[k].st.lastControlEnforcedPosition = EnforcedFrom(k)

\* C9 witness: enforceControlParameters returned the raw x = 0 while the
\* first label was set to 1.
C9_Witness ==
    \E k \in Events("enforceControlParameters.ret") :
        /\ Len(log[k].labels) > 0
        /\ log[k].labels[1].isSet
        /\ log[k].labels[1].value = 1
        /\ EnforcedFrom(k)[1] = 0
        /\ log[k].arg[1] = 0

\* The steps of onConstructionMethodChanged.
MethodChangeSteps ==
    <<"nOnViewParameter", "doConstructionMethodChanged", "updateCursor",
      "reset", "mouseMove">>

\* C10: onConstructionMethodChanged sets nOnViewParameter to the size of the
\* new method, then calls doConstructionMethodChanged, handler->updateCursor,
\* handler->reset and handler->mouseMove with the recorded position, each
\* once and in this order.
C10_MethodChangeOrder ==
    EntryPoint = "onConstructionMethodChanged" =>
        /\ Calls({MethodChangeSteps[k] : k \in DOMAIN MethodChangeSteps})
              = MethodChangeSteps
        /\ nOnViewParameter = size(constructionMethod)
        /\ \A k \in Events("mouseMove") :
              log[k].arg = log[k].st.prevCursorPosition

\* C10 witness: a change of method after the pointer moved to x = 1, so the
\* replay is of a recorded position, with the handler's state reset.
C10_Witness ==
    /\ EntryPoint = "onConstructionMethodChanged"
    /\ log[1].st.state # getFirstState
    /\ prevCursorPosition = <<1, 0>>
    /\ \E k \in Events("mouseMove") : log[k].arg = <<1, 0>>

\* C11 (as stated): whenever resetControls returns, every on-view parameter
\* of the handler's current state is active and in edit, and firstMoveInit is
\* false.
C11_ActivatedAfterReset ==
    \A k \in Events("resetControls.ret") :
        /\ ~log[k].st.firstMoveInit
        /\ \A i \in OfMode(Len(log[k].labels), log[k].st.state) :
               /\ log[k].labels[i + 1].active
               /\ log[k].labels[i + 1].edit

\* C11 (amended): whenever resetControls returns, every on-view parameter is
\* as constructed (not set, not active, not in edit), the focus index is 0
\* and firstMoveInit is false; the activation by mode is applied by the next
\* call of mouseMoved, which takes the first-movement branch.
C11_FreshAfterReset ==
    \A k \in Events("resetControls.ret") :
        /\ ~log[k].st.firstMoveInit
        /\ log[k].st.onViewIndexWithFocus = 0
        /\ \A i \in DOMAIN log[k].labels : log[k].labels[i] = NewLabel
        /\ LET m == NextEvent(k, "mouseMoved")
           IN  m # 0 => TookFirstMovement(m)

\* resetControls returns, after a mouse movement, with a parameter of the
\* handler's current state that is not active.
C11_Witness ==
    /\ \E k \in Events("resetControls.ret") :
          /\ log[1].st.firstMoveInit
          /\ OfMode(Len(log[k].labels), log[k].st.state) # {}
          /\ \A i \in OfMode(Len(log[k].labels), log[k].st.state) :
                 ~log[k].labels[i + 1].active
          /\ NextEvent(k, "mouseMoved") # 0

\* What resetControls decides of the controller: the labels and their number,
\* the focus index and the first-movement flag.
Controls(r) ==
    [nOnViewParameter |-> r.nOnViewParameter,
     onViewParameters |-> r.onViewParameters,
     onViewIndexWithFocus |-> r.onViewIndexWithFocus,
     firstMoveInit |-> r.firstMoveInit]

\* What resetControls leaves alone: the recorded positions, init and the
\* handler's state.
Kept(r) ==
    [prevCursorPosition |-> r.prevCursorPosition,
     lastControlEnforcedPosition |-> r.lastControlEnforcedPosition,
     init |-> r.init,
     state |-> r.state]

\* C12: from every reachable state, resetControls called twice in a row
\* leaves the labels (their number and each one's set, active and edit
\* status), the focus index and firstMoveInit as one call leaves them, and
\* after either the recorded positions, init and the handler's state are what
\* they were; a state resetControls has just returned in is not changed by
\* another call.
C12_ResetIdempotent ==
    LET once == resetControls(Cur)
        twice == resetControls(once)
    IN  /\ Controls(twice) = Controls(once)
        /\ Kept(once) = Kept(Cur)
        /\ Kept(twice) = Kept(Cur)
        /\ EntryPoint = "resetControls" =>
              /\ Controls(once) = Controls(Cur)
              /\ prevCursorPosition = log[1].st.prevCursorPosition
              /\ lastControlEnforcedPosition = log[1].st.lastControlEnforcedPosition
              /\ state = log[1].st.state

\* resetControls has returned from a state with active labels, the focus
\* away from 0, a mouse movement seen and the handler beyond its first state.
C12_Witness ==
    /\ EntryPoint = "resetControls"
    /\ log[1].st.firstMoveInit
    /\ log[1].st.onViewIndexWithFocus # 0
    /\ log[1].st.n > 0
    /\ state # getFirstState
    /\ prevCursorPosition # <<0, 0>>

\* The indices that are no label's: below 0, or the number of labels and
\* above.
NoLabel == {i \in (-2) .. (MaxParameters + 1) : ~ InRange(i, Len(onViewParameters))}

\* C13: setFocusToOnViewParameter with an index that is no label's (negative,
\* or at or beyond the number of labels, an empty vector included) changes
\* nothing and logs no call; so does the focus step of onViewValueChanged for
\* an index whose successor is no label's, and an onViewValueChanged that ran
\* for such an index left the focus index at that step where it was and gave
\* no spinbox the focus there.
C13_OutOfRangeFocusNoOp ==
    /\ \A i \in NoLabel : setFocusToOnViewParameter(Cur, i) = Cur
    /\ \A i \in (-2) .. MaxParameters :
          (i + 1) \in NoLabel => onViewValueChangedFocus(Cur, i) = Cur
    /\ (EntryPoint = "onViewValueChanged" /\ ~ InRange(EditedIndex + 1, BeforeFocusStep.n)) =>
          /\ NextEvent(1, "onViewValueChanged.focus") = 2
          /\ AfterFocusStep = BeforeFocusStep

\* onViewValueChanged ran for the last label while the focus was elsewhere.
C13_Witness ==
    /\ EntryPoint = "onViewValueChanged"
    /\ EditedIndex + 1 = BeforeFocusStep.n
    /\ BeforeFocusStep.onViewIndexWithFocus # EditedIndex

\* Entry k of the call history lies inside a call of enforceControlParameters:
\* the call was entered at or before k and has not returned by k.
InEnforce(k) ==
    \E e \in Events("enforceControlParameters") :
        /\ e <= k
        /\ \A j \in Events("enforceControlParameters.ret") : ~ (e < j /\ j <= k)

\* The two recorded positions.
Recorded(st) == <<st.prevCursorPosition, st.lastControlEnforcedPosition>>

\* C14: prevCursorPosition and lastControlEnforcedPosition change only inside
\* enforceControlParameters: from one entry of any entry point's call history
\* to the next, and from the last one to the return, they differ only if the
\* earlier entry lies inside a call of enforceControlParameters; and when
\* enforceControlParameters(p) returns, prevCursorPosition is the p it was
\* called with and lastControlEnforcedPosition the position it returns.
C14_PositionsOnlyEnforced ==
    /\ \A k \in DOMAIN log :
          LET after == IF k < Len(log)
                       THEN Recorded(log[k + 1].st)
                       ELSE <<prevCursorPosition, lastControlEnforcedPosition>>
          IN  after # Recorded(log[k].st) => InEnforce(k)
    /\ \A k \in Events("enforceControlParameters.ret") :
          LET e == PrevEvent(k, "enforceControlParameters")
          IN  /\ e # 0
              /\ log[k].st.prevCursorPosition = log[e].arg
              /\ log[k].st.lastControlEnforcedPosition = log[k].arg
              /\ k = Len(log) =>
                    /\ prevCursorPosition = log[e].arg
                    /\ lastControlEnforcedPosition = log[k].arg

\* onViewValueChanged has changed the enforced position through a nested
\* enforceControlParameters that returned a position other than the one it
\* was called with.
C14_Witness ==
    /\ EntryPoint = "onViewValueChanged"
    /\ log[1].st.lastControlEnforcedPosition # lastControlEnforcedPosition
    /\ \E k \in Events("enforceControlParameters.ret") :
          log[k].arg # log[PrevEvent(k, "enforceControlParameters")].arg

\* In the call history of onViewValueChanged: the entry that ends the focus
\* step (finishControlsChanged starts after it, adaptDrawing being empty),
\* the call of the mode-change hook, and the replays after the hook that are
\* not the one afterHandlerModeChanged makes right after its own entry.
FinishStart == NextEvent(1, "onViewValueChanged.focus")
HookCall == NextEvent(FinishStart, "doChangeDrawSketchHandlerMode")
SecondReplay ==
    {j \in Events("mouseMove") :
        j > HookCall /\ (j - 1) \notin Events("afterHandlerModeChanged")}

\* The fields when the hook has returned: those the second replay was called
\* with, or those onViewValueChanged returned with if there was none.
AfterHook ==
    IF SecondReplay = {}
    THEN Fields(Cur)
    ELSE log[Lowest(SecondReplay)].st

ModeApplied(before, after, i, mode) ==
    IF stateMap[i] = mode
    THEN /\ after.active
         /\ after.edit
         /\ after.value = 0
    ELSE /\ ~ after.edit
         /\ IF before.isSet /\ mode # End
            THEN after.active = before.active
            ELSE ~ after.active

\* C16: setModeOnViewParameters leaves every label of the handler's state
\* active and in edit, restarted at 0; every other label not in edit, and
\* not active either unless it is set and the handler is not in End, in which
\* case it is as active as it was.  This is so wherever it is called: from
\* every reachable state with the handler in any state, and at each of its
\* returns in the call history.
C16_ModeActivation ==
    /\ \A mode \in SelectMode :
          LET before == [Cur EXCEPT !.state = mode]
              after == setModeOnViewParameters(before)
          IN  /\ Len(after.onViewParameters) = Len(onViewParameters)
              /\ \A i \in 0 .. (Len(onViewParameters) - 1) :
                    /\ ModeApplied(before.onViewParameters[i + 1],
                                   after.onViewParameters[i + 1], i, mode)
                    /\ after.onViewParameters[i + 1].isSet =
                          before.onViewParameters[i + 1].isSet
    /\ \A k \in Events("setModeOnViewParameters.ret") :
          \A i \in 0 .. (Len(log[k].labels) - 1) :
              LET label == log[k].labels[i + 1]
              IN  IF stateMap[i] = log[k].st.state
                  THEN label.active /\ label.edit /\ label.value = 0
                  ELSE /\ ~ label.edit
                       /\ (~ label.isSet \/ log[k].st.state = End) => ~ label.active

\* setModeOnViewParameters returned, the handler not in End, with a label of
\* another state that is set and still active, and with a label of the
\* handler's state in edit.
C16_Witness ==
    \E k \in Events("setModeOnViewParameters.ret") :
        /\ log[k].st.state # End
        /\ \E i \in 0 .. (Len(log[k].labels) - 1) :
              /\ stateMap[i] # log[k].st.state
              /\ log[k].labels[i + 1].isSet
              /\ log[k].labels[i + 1].active
              /\ ~ log[k].labels[i + 1].edit
        /\ \E i \in 0 .. (Len(log[k].labels) - 1) :
              /\ stateMap[i] = log[k].st.state
              /\ log[k].labels[i + 1].edit

\* The spinboxes given the focus between entries e and k of the call history.
FocusedBetween(e, k) ==
    {log[j].arg[1] : j \in {h \in Events("setFocusToSpinbox") : e < h /\ h < k}}

\* C17: enforceControlParameters returns with the focus index it was called
\* with; during the call the spinbox of that index is given the focus, once,
\* if the index is a label's, and no spinbox is given the focus if it is not
\* (-1 included).
C17_EnforceRestoresFocus ==
    \A k \in Events("enforceControlParameters.ret") :
        LET e == PrevEvent(k, "enforceControlParameters")
            focus == log[e].st.onViewIndexWithFocus
        IN  /\ log[k].st.onViewIndexWithFocus = focus
            /\ k = Len(log) => onViewIndexWithFocus = focus
            /\ IF InRange(focus, log[e].st.n)
               THEN /\ FocusedBetween(e, k) = {focus}
                    /\ k = e + 2
               ELSE /\ FocusedBetween(e, k) = {}
                    /\ k = e + 1

\* enforceControlParameters ran once with the focus on label 1, whose spinbox
\* it gave the focus again, and once with the focus unset.
C17_Witness ==
    /\ \E k \in Events("enforceControlParameters.ret") :
          /\ log[k].st.onViewIndexWithFocus = 1
          /\ FocusedBetween(PrevEvent(k, "enforceControlParameters"), k) = {1}
    /\ \E k \in Events("enforceControlParameters.ret") :
          /\ log[k].st.onViewIndexWithFocus = -1
          /\ log[k].st.n > 0

\* The calls of handler->mouseMove after entry k of the call history.
MouseMovesAfter(k) == {j \in Events("mouseMove") : j > k}

\* C18: afterHandlerModeChanged calls handler->mouseMove, with the recorded
\* raw position, if the handler is not in End or is in continuous mode, and
\* does not call it if the handler is in End without continuous mode; where
\* the handler's change of state is the entry point, that call is the only
\* one that follows.
C18_AfterModeChangeReplay ==
    \A a \in Events("afterHandlerModeChanged") :
        LET replays == log[a].st.state # End \/ continuousMode
            direct == EntryPoint \in {"stateChanged", "onHandlerModeChanged"}
        IN  /\ replays =>
                  /\ a < Len(log)
                  /\ log[a + 1].ev = "mouseMove"
                  /\ log[a + 1].arg = log[a].st.prevCursorPosition
                  /\ direct => MouseMovesAfter(a) = {a + 1}
            /\ ~ replays =>
                  /\ a < Len(log) => log[a + 1].ev # "mouseMove"
                  /\ direct => MouseMovesAfter(a) = {}

\* The handler has moved to End without continuous mode, after the pointer
\* had moved away from the origin, and afterHandlerModeChanged made no call.
C18_Witness ==
    /\ EntryPoint = "stateChanged"
    /\ state = End
    /\ ~ continuousMode
    /\ prevCursorPosition # <<0, 0>>
    /\ Events("afterHandlerModeChanged") # {}
    /\ Events("mouseMove") = {}

\* C19 (as stated): once the controls are initialised, after any sequence of
\* operations, the focus index is -1 or the index of a label.
C19_FocusIndexValid ==
    init => \/ onViewIndexWithFocus = -1
            \/ InRange(onViewIndexWithFocus, Len(onViewParameters))

\* C20: prevCursorPosition is the last position the pointer reported, whatever
\* the enforcement hook makes of it: a pointer movement to p leaves it p, and
\* every other entry point leaves it as it was, each of its replays being a
\* call of handler->mouseMove with it, and it being the same at every entry
\* of the call history.
C20_RawPositionStable ==
    [][IF log'[1].ev = "mouseMove"
       THEN prevCursorPosition' = log'[1].arg
       ELSE /\ prevCursorPosition' = prevCursorPosition
            /\ \A j \in DOMAIN log' :
                  /\ log'[j].st.prevCursorPosition = prevCursorPosition
                  /\ log'[j].ev = "mouseMove" => log'[j].arg = prevCursorPosition]_vars

\* onViewValueChanged has replayed three times, each replay enforced to a
\* position other than the recorded raw one.
C20_Witness ==
    /\ EntryPoint = "onViewValueChanged"
    /\ Cardinality(Events("mouseMove")) = 3
    /\ lastControlEnforcedPosition # prevCursorPosition
    /\ \A k \in Events("enforceControlParameters.ret") :
          log[k].arg # log[k].st.prevCursorPosition

====
